---- MODULE Spec2Model ----
(***************************************************************************)
(* A model of the BayesianNetwork repository: the reverse-mode             *)
(* differentiation core (tensors, the Add and LogDeterminant operations,   *)
(* broadcasting), the Optimizer base class, and the GaussianMixture and    *)
(* MultivariateGaussian random variables.                                  *)
(*                                                                         *)
(* Arrays are records [shape, data]: shape is the tuple of dimensions,     *)
(* data the entries in row-major order.  Entries are integers.             *)
(***************************************************************************)
EXTENDS Integers, Sequences, FiniteSets, TLC

\* ------------------------------------------------------------------ bounds
\* Array shapes and entries.
MaxRank == 2
MaxDim == 2
MaxSeed == 1
MaxEntry == 1
\* The computation graph: Add instances, backward calls.
MaxOps == 2
MaxPassOps == 3
MaxBackward == 2
\* The optimizer: initial rates, decay rates, decay steps, iterations.
MaxLr == 2
MaxRate == 3
MaxStep == 2
MaxIter == 4
\* The multivariate Gaussian: dimension, diagonal of the Cholesky factors.
MaxMvgDim == 2
MaxDiag == 2
MaxMvgSteps == 3
\* The Gaussian mixture: calls made on an instance.
MaxGmSteps == 2

\* ------------------------------------------------------- integer helpers
RECURSIVE Prod(_)
Prod(s) == IF s = <<>> THEN 1 ELSE Head(s) * Prod(Tail(s))

RECURSIVE SumSeq(_)
SumSeq(s) == IF s = <<>> THEN 0 ELSE Head(s) + SumSeq(Tail(s))

RECURSIVE Pow(_, _)
Pow(b, e) == IF e = 0 THEN 1 ELSE b * Pow(b, e - 1)

Max2(p, q) == IF p >= q THEN p ELSE q

\* ------------------------------------------------------------ ndarray
\* numpy.ndarray: shape and row-major data.
Arr(shape, data) == [shape |-> shape, data |-> data]

Size(shape) == Prod(shape)

Ndim(arr) == Len(arr.shape)

\* np.ones(shape)
Ones(shape) == Arr(shape, [k \in 1..Size(shape) |-> 1])

\* The input arrays the model draws: entries cycle through -1, 0, 1 from a seed.
Fill(shape, seed) == Arr(shape, [k \in 1..Size(shape) |-> ((seed + k) % 3) - 1])

RECURSIVE ShapesOfRank(_)
ShapesOfRank(r) ==
    IF r = 0 THEN {<<>>}
    ELSE {<<d>> \o s : d \in 1..MaxDim, s \in ShapesOfRank(r - 1)}

\* The shapes of the repository's own tests (test_add, test_broadcast).
TestShapes == {<<4>>, <<5, 4>>, <<1, 1>>, <<5, 2, 3>>}

Shapes == UNION {ShapesOfRank(r) : r \in 0..MaxRank} \cup TestShapes

\* ------------------------------------------------------- broadcasting
\* Left-pad a shape with 1s to rank n.
PadShape(s, n) == [i \in 1..(n - Len(s)) |-> 1] \o s

\* np.broadcast(x, y).shape: trailing dimensions aligned, a dimension of 1
\* expands; incompatible shapes raise ValueError.
BroadcastOK(s1, s2) ==
    LET n == Max2(Len(s1), Len(s2))
        p1 == PadShape(s1, n)
        p2 == PadShape(s2, n)
    IN \A i \in 1..n : p1[i] = p2[i] \/ p1[i] = 1 \/ p2[i] = 1

BroadcastShape(s1, s2) ==
    LET n == Max2(Len(s1), Len(s2))
        p1 == PadShape(s1, n)
        p2 == PadShape(s2, n)
    IN [i \in 1..n |-> IF p1[i] = 1 THEN p2[i] ELSE p1[i]]

\* Whether an array of shape s can be expanded to shape t.
ExpandsTo(s, t) ==
    /\ Len(s) <= Len(t)
    /\ LET p == PadShape(s, Len(t))
       IN \A i \in 1..Len(t) : p[i] = t[i] \/ p[i] = 1

\* The expansion of row-major data of (padded) shape s to shape t, axis by axis:
\* an axis of size 1 repeats its block, another axis expands each of its blocks.
RECURSIVE ExpandData(_, _, _)
ExpandData(data, s, t) ==
    IF t = <<>> THEN data
    ELSE LET inner == Size(Tail(s))
             Block(i) == SubSeq(data, (i - 1) * inner + 1, i * inner)
             Sub(i) == ExpandData(Block(IF s[1] = 1 THEN 1 ELSE i), Tail(s), Tail(t))
             RECURSIVE Cat(_)
             Cat(i) == IF i > t[1] THEN <<>> ELSE Sub(i) \o Cat(i + 1)
         IN Cat(1)

\* BroadcastTo._forward: the value of broadcast_to(x, shape).
BroadcastTo_forward(x, shape) ==
    Arr(shape, ExpandData(x.data, PadShape(x.shape, Len(shape)), shape))

\* arr.sum(axis=0): the leading axis summed away.
SumAxis0(arr) ==
    LET inner == Size(Tail(arr.shape))
    IN Arr(Tail(arr.shape),
           [k \in 1..inner |->
               SumSeq([i \in 1..arr.shape[1] |-> arr.data[(i - 1) * inner + k]])])

\* arr.sum(axis=ax, keepdims=True), ax counted from 1.
SumAxisKeep(arr, ax) ==
    LET n == arr.shape[ax]
        inner == Size(SubSeq(arr.shape, ax + 1, Len(arr.shape)))
        outer == Size(SubSeq(arr.shape, 1, ax - 1))
    IN Arr([arr.shape EXCEPT ![ax] = 1],
           [k \in 1..(outer * inner) |->
               LET o == (k - 1) \div inner
                   j == (k - 1) % inner
               IN SumSeq([i \in 1..n |-> arr.data[o * n * inner + (i - 1) * inner + j + 1]])])

\* BroadcastTo._backward: the gradient delta (of the expanded shape) reduced to
\* the operand's own shape xshape: the new leading axes are summed away, then
\* every axis the operand had with size 1 is summed keeping the dimension.
RECURSIVE DropLeading(_, _)
DropLeading(arr, n) == IF n = 0 THEN arr ELSE DropLeading(SumAxis0(arr), n - 1)

RECURSIVE ReduceOnes(_, _, _)
ReduceOnes(arr, xshape, ax) ==
    IF ax > Len(xshape) THEN arr
    ELSE ReduceOnes(IF xshape[ax] = 1 THEN SumAxisKeep(arr, ax) ELSE arr, xshape, ax + 1)

BroadcastTo_backward(delta, xshape) ==
    ReduceOnes(DropLeading(delta, Len(delta.shape) - Len(xshape)), xshape, 1)

\* ------------------------------------------------------------- state
VARIABLES
    aX, aY,          \* add: the two operands handed to add(x, y)
    aZ,              \* add: the node add returned, or None
    aGrad,           \* add: the grad of each operand leaf (None: no grad yet)
    aErr,            \* add: the error the last call raised, or "none"
    aPc,             \* add: "init", "built" (forward done), "done", "raised"
    gNodes,          \* graph: the tensors, in creation order
    gOps,            \* graph: the Operation instances (inputs held, calls counted)
    gGrad,           \* graph: each tensor's grad (None unless a Parameter got one)
    gCalls,          \* graph: every backward call made, [root, delta]
    gCleared,        \* graph: how many of gCalls came before the last cleargrad
    gPass,           \* graph: the backward rules the last backward call ran, in order
    opt,             \* optimizer: the Optimizer object (learning_rate, n_iter, decay)
    oHist,           \* optimizer: the calls made on it (history)
    oErr,            \* optimizer: the error the last call raised, or "none"
    ldX,             \* logdet: the argument handed to logdet(x)
    ldOut,           \* logdet: the node logdet returned, or None
    ldErr,           \* logdet: the error the call raised, or "none"
    ldPc,            \* logdet: "init", "returned", "raised"
    mvg,             \* MultivariateGaussian: the instance (mu, cov, L, eps), or None
    mGrad,           \* MultivariateGaussian: the grads of the mu and cov leaves
    mSample,         \* MultivariateGaussian: the tensor the last forward() returned
    mLast,           \* MultivariateGaussian: what the _backward just run computed, or None
    mErr,            \* MultivariateGaussian: the error the last call raised, or "none"
    mSteps,          \* MultivariateGaussian: the calls made on the instance
    gm,              \* GaussianMixture: the instance (axis, coef, mu, std, n_component), or None
    gmGrad,          \* GaussianMixture: the grads of the coef, mu and std leaves
    gmSample,        \* GaussianMixture: the tensor the last forward() returned, or None
    gmCall,          \* GaussianMixture: the last call made ("none" at first)
    gmErr,           \* GaussianMixture: the error the last call raised, or "none"
    gmSteps          \* GaussianMixture: the calls made on the instance

addVars == <<aX, aY, aZ, aGrad, aErr, aPc>>
graphVars == <<gNodes, gOps, gGrad, gCalls, gCleared, gPass>>
optVars == <<opt, oHist, oErr>>
ldVars == <<ldX, ldOut, ldErr, ldPc>>
mvgVars == <<mvg, mGrad, mSample, mLast, mErr, mSteps>>
gmVars == <<gm, gmGrad, gmSample, gmCall, gmErr, gmSteps>>

vars == <<addVars, graphVars, optVars, ldVars, mvgVars, gmVars>>

\* What the actions of one subsystem leave alone.
AddFrame == UNCHANGED <<graphVars, optVars, ldVars, mvgVars, gmVars>>
GraphFrame == UNCHANGED <<addVars, optVars, ldVars, mvgVars, gmVars>>
OptFrame == UNCHANGED <<addVars, ldVars, mvgVars, gmVars>>
LdFrame == UNCHANGED <<addVars, graphVars, optVars, mvgVars, gmVars>>
MvgFrame == UNCHANGED <<addVars, graphVars, optVars, ldVars, gmVars>>
GmFrame == UNCHANGED <<addVars, graphVars, optVars, ldVars, mvgVars>>

None == [none |-> TRUE]

\* ------------------------------------------------ idle subsystems
\* Each specification runs one subsystem; the others' variables rest here.
AddIdle ==
    /\ aX = None /\ aY = None /\ aZ = None /\ aGrad = None
    /\ aErr = "none" /\ aPc = "idle"

Scalar(v) == Arr(<<>>, <<v>>)

\* The leaves of test_add: x = Parameter(2), and the 5 of x + 5, a Constant.
GraphLeaves ==
    <<[kind |-> "Parameter", value |-> Scalar(2), function |-> 0],
      [kind |-> "Constant", value |-> Scalar(5), function |-> 0]>>

GraphIdle ==
    /\ gNodes = GraphLeaves
    /\ gOps = <<>>
    /\ gGrad = [i \in 1..Len(GraphLeaves) |-> None]
    /\ gCalls = <<>>
    /\ gCleared = 0
    /\ gPass = <<>>

OptIdle ==
    /\ opt = None
    /\ oHist = None
    /\ oErr = "none"

LdIdle ==
    /\ ldX = None /\ ldOut = None /\ ldErr = "none" /\ ldPc = "idle"

MvgIdle ==
    /\ mvg = None /\ mGrad = None /\ mSample = None /\ mLast = None
    /\ mErr = "none" /\ mSteps = 0

GmIdle ==
    /\ gm = None /\ gmGrad = None /\ gmSample = None /\ gmCall = "none"
    /\ gmErr = "none" /\ gmSteps = 0

\* ----------------------------------------------------- tensors (leaves)
\* A leaf the caller passes: a Parameter, or a raw array that
\* Function._convert2tensor wraps as a Constant.
Kinds == {"Parameter", "Constant"}

Leaf(kind, id, value) == [kind |-> kind, id |-> id, value |-> value]

\* Parameter._backward: the leaf's grad accumulates; the first delta is copied.
Parameter_backward(grad, delta) ==
    IF grad = None THEN delta
    ELSE Arr(grad.shape, [k \in 1..Len(grad.data) |-> grad.data[k] + delta.data[k]])

\* broadcast_to(x, shape): a new node whose producer is a BroadcastTo instance.
broadcast_to(x, shape) ==
    [kind |-> "Tensor", value |-> BroadcastTo_forward(x.value, shape),
     function |-> [op |-> "BroadcastTo", x |-> x]]

\* ------------------------------------------------------------- Add
\* Add._check_input: operands of different shapes are both expanded to the
\* numpy broadcast shape (an operand already of that shape is left alone).
Add_check_input(x, y) ==
    IF x.value.shape # y.value.shape
    THEN LET shape == BroadcastShape(x.value.shape, y.value.shape)
         IN [x |-> IF x.value.shape # shape THEN broadcast_to(x, shape) ELSE x,
             y |-> IF y.value.shape # shape THEN broadcast_to(y, shape) ELSE y]
    ELSE [x |-> x, y |-> y]

\* Add._forward: Tensor(x.value + y.value, function=self), self holding x and y.
Add_forward(x, y) ==
    LET in == Add_check_input(x, y)
    IN [kind |-> "Tensor",
        value |-> Arr(in.x.value.shape,
                      [k \in 1..Len(in.x.value.data) |-> in.x.value.data[k] + in.y.value.data[k]]),
        function |-> [op |-> "Add", x |-> in.x, y |-> in.y]]

\* A slip of the subtract kind: the second operand gets the negated gradient.
Add_backward_negY(self, delta) ==
    <<[to |-> self.x, delta |-> delta],
      [to |-> self.y,
       delta |-> Arr(delta.shape, [k \in 1..Len(delta.data) |-> 0 - delta.data[k]])]>>

\* A slip: the call self.y.backward(dy) is missing.
Add_backward_dropY(self, delta) == <<[to |-> self.x, delta |-> delta]>>

\* Add._backward: dx = delta, dy = delta; self.x.backward(dx), then
\* self.y.backward(dy).  The result is the calls it makes, in order.
Add_backward(self, delta) ==
    <<[to |-> self.x, delta |-> delta], [to |-> self.y, delta |-> delta]>>

\* Tensor.backward on an operand of the Add: a Parameter accumulates, a
\* Constant discards, a broadcast_to node reduces delta and hands it to its input.
Operand_backward(t, delta, grad) ==
    IF t.kind = "Parameter" THEN [grad EXCEPT ![t.id] = Parameter_backward(@, delta)]
    ELSE IF t.kind = "Constant" THEN grad
    ELSE LET src == t.function.x
             dx == BroadcastTo_backward(delta, src.value.shape)
         IN IF src.kind = "Parameter"
            THEN [grad EXCEPT ![src.id] = Parameter_backward(@, dx)]
            ELSE grad

\* z.backward(delta) for z = add(x, y): the calls of Add._backward, in order.
RECURSIVE Operands_backward(_, _)
Operands_backward(calls, grad) ==
    IF calls = <<>> THEN grad
    ELSE Operands_backward(Tail(calls),
                           Operand_backward(Head(calls).to, Head(calls).delta, grad))

AddNode_backward(z, delta, grad) ==
    Operands_backward(Add_backward(z.function, delta), grad)

\* ------------------------------------------------------- matrices

Entries == (0 - MaxEntry)..MaxEntry

\* Every integer array of a shape with entries in S.
ArraysOf(shape, S) == {Arr(shape, d) : d \in [1..Size(shape) -> S]}

IsSquare(arr) == Ndim(arr) = 2 /\ arr.shape[1] = arr.shape[2]

\* arr[i, j] of a 2-D array, i and j from 1.
At(arr, i, j) == arr.data[(i - 1) * arr.shape[2] + j]

\* The matrix without row 1 and column c.
Minor(arr, c) ==
    LET n == arr.shape[1]
    IN Arr(<<n - 1, n - 1>>,
           [k \in 1..((n - 1) * (n - 1)) |->
               LET i == ((k - 1) \div (n - 1)) + 2
                   j0 == ((k - 1) % (n - 1)) + 1
               IN At(arr, i, IF j0 >= c THEN j0 + 1 ELSE j0)])

\* The determinant of a square matrix, by expansion along the first row.
RECURSIVE Det(_)
Det(arr) ==
    LET n == arr.shape[1]
    IN IF n = 0 THEN 1
       ELSE IF n = 1 THEN arr.data[1]
       ELSE SumSeq([c \in 1..n |->
                (IF c % 2 = 1 THEN 1 ELSE 0 - 1) * At(arr, 1, c) * Det(Minor(arr, c))])

Sign(v) == IF v > 0 THEN 1 ELSE IF v < 0 THEN 0 - 1 ELSE 0

Abs(v) == IF v < 0 THEN 0 - v ELSE v

\* np.linalg.slogdet: the sign of the determinant and the log of its absolute
\* value (kept as the value whose log it is).
Slogdet(arr) == [sign |-> Sign(Det(arr)), logabsdet |-> [log |-> Abs(Det(arr))]]

\* The leading k x k block of a square matrix.
Leading(arr, k) == Arr(<<k, k>>, [m \in 1..(k * k) |-> At(arr, ((m - 1) \div k) + 1, ((m - 1) % k) + 1)])

IsSymmetric(arr) == \A i \in 1..arr.shape[1], j \in 1..arr.shape[2] : At(arr, i, j) = At(arr, j, i)

\* Positive-definite: symmetric with every leading principal minor positive.
PositiveDefinite(arr) ==
    /\ IsSquare(arr)
    /\ IsSymmetric(arr)
    /\ \A k \in 1..arr.shape[1] : Det(Leading(arr, k)) > 0

\* ------------------------------------------------------- LogDeterminant
\* LogDeterminant._forward: x must be 2-D (and square, for slogdet); a sign
\* other than 1 raises ValueError; a Constant argument gives a Constant.
LogDeterminant_forward(x) ==
    IF Ndim(x.value) # 2 THEN [err |-> "ValueError", out |-> None]
    ELSE IF ~IsSquare(x.value) THEN [err |-> "LinAlgError", out |-> None]
    ELSE LET r == Slogdet(x.value)
         IN IF r.sign # 1 THEN [err |-> "ValueError", out |-> None]
            ELSE [err |-> "none",
                  out |-> [kind |-> IF x.kind = "Constant" THEN "Constant" ELSE "Tensor",
                           value |-> r.logabsdet]]

LdShapes == {<<1, 1>>, <<2, 2>>, <<2>>, <<1, 2>>}

LdInit ==
    /\ ldX \in {[kind |-> k, value |-> v] :
                    k \in {"Parameter", "Constant"},
                    v \in UNION {ArraysOf(sh, Entries) : sh \in LdShapes}}
    /\ ldOut = None /\ ldErr = "none" /\ ldPc = "init"
    /\ GraphIdle
    /\ AddIdle
    /\ OptIdle
    /\ MvgIdle
    /\ GmIdle

\* logdet(x) returns a node.
LogdetReturns ==
    /\ ldPc = "init"
    /\ LogDeterminant_forward(ldX).err = "none"
    /\ ldOut' = LogDeterminant_forward(ldX).out
    /\ ldPc' = "returned"
    /\ UNCHANGED <<ldX, ldErr>>
    /\ LdFrame

\* logdet(x) raises and returns nothing.
LogdetRaises ==
    /\ ldPc = "init"
    /\ LogDeterminant_forward(ldX).err # "none"
    /\ ldErr' = LogDeterminant_forward(ldX).err
    /\ ldPc' = "raised"
    /\ UNCHANGED <<ldX, ldOut>>
    /\ LdFrame

LdNext == LogdetReturns \/ LogdetRaises

SpecLogdet == LdInit /\ [][LdNext]_vars

\* ---- C4 ------------------------------------------------------------
\* C4: on a symmetric square matrix, logdet returns a node exactly when the matrix is
\* positive-definite, and otherwise raises the domain error (ValueError).
C4_LogdetRejectsNonPD ==
    (ldPc \in {"returned", "raised"} /\ IsSquare(ldX.value) /\ IsSymmetric(ldX.value)) =>
        IF PositiveDefinite(ldX.value)
        THEN ldPc = "returned" /\ ldOut # None
        ELSE ldPc = "raised" /\ ldErr = "ValueError" /\ ldOut = None

\* ------------------------------------------------ MultivariateGaussian

\* a.T of a 2-D array
Transpose(a) ==
    Arr(<<a.shape[2], a.shape[1]>>,
        [k \in 1..Len(a.data) |->
            At(a, ((k - 1) % a.shape[1]) + 1, ((k - 1) \div a.shape[1]) + 1)])

\* numpy's a @ b for 1-D and 2-D operands; None stands for the ValueError of
\* mismatched dimensions.  A 1-D left operand is a row, a 1-D right operand a
\* column, and the added dimension is dropped from the result.
Matmul(a, b) ==
    LET a2 == IF Ndim(a) = 1 THEN Arr(<<1, a.shape[1]>>, a.data) ELSE a
        b2 == IF Ndim(b) = 1 THEN Arr(<<b.shape[1], 1>>, b.data) ELSE b
        n == a2.shape[1]
        k == a2.shape[2]
        m == b2.shape[2]
        data == [q \in 1..(n * m) |->
                    LET i == ((q - 1) \div m) + 1
                        j == ((q - 1) % m) + 1
                    IN SumSeq([t \in 1..k |-> At(a2, i, t) * At(b2, t, j)])]
    IN IF a2.shape[2] # b2.shape[1] THEN None
       ELSE IF Ndim(a) = 1 /\ Ndim(b) = 1 THEN Arr(<<>>, data)
       ELSE IF Ndim(a) = 1 THEN Arr(<<m>>, data)
       ELSE IF Ndim(b) = 1 THEN Arr(<<n>>, data)
       ELSE Arr(<<n, m>>, data)

\* x[:, None] of a 1-D array
ColumnOf(x) == Arr(<<x.shape[1], 1>>, x.data)

Identity(d) == Arr(<<d, d>>, [k \in 1..(d * d) |-> IF (k - 1) \div d = (k - 1) % d THEN 1 ELSE 0])

Scaled(c, a) == Arr(a.shape, [k \in 1..Len(a.data) |-> c * a.data[k]])

\* The lower-triangular factors the model's covariances are built from: the
\* multiples c I of the identity, and the matrix of ones on and below the diagonal.
LowerTri(d) ==
    {Scaled(c, Identity(d)) : c \in 1..MaxDiag}
    \cup {Arr(<<d, d>>, [k \in 1..(d * d) |-> IF (k - 1) \div d >= (k - 1) % d THEN 1 ELSE 0])}

\* The covariance values the model draws: products L L^T, positive-definite,
\* and the negated identity, which is not.
PDCovs(d) == {Matmul(l, Transpose(l)) : l \in LowerTri(d)}

CovDomain == UNION {PDCovs(d) \cup {Scaled(0 - 1, Identity(d))} : d \in 1..MaxMvgDim}

MuDomain == {Fill(<<d>>, 0) : d \in 1..MaxMvgDim}

\* The noise draws and the gradients: all ones, and 1, 2, ..., d.
Vectors == UNION {{Ones(<<d>>), Arr(<<d>>, [k \in 1..d |-> k])} : d \in 1..MaxMvgDim}

\* np.linalg.cholesky: the lower-triangular factor; None stands for LinAlgError
\* (not square, or not positive-definite).
np_cholesky(a) ==
    IF ~IsSquare(a) \/ ~PositiveDefinite(a) THEN None
    ELSE CHOOSE l \in LowerTri(a.shape[1]) : Matmul(l, Transpose(l)) = a

\* cholesky(x): x converted to a tensor (a raw array becomes a Constant), the
\* factor returned as a Constant for a Constant argument.
cholesky(x) ==
    LET l == np_cholesky(x.value)
    IN IF l = None THEN None
       ELSE [kind |-> IF x.kind = "Constant" THEN "Constant" ELSE "Tensor", value |-> l,
             input |-> x]

\* Function._convert2tensor on a raw array
Constant(value) == [kind |-> "Constant", value |-> value]

\* MultivariateGaussian._check_input: mu 1-D, cov 2-D of shape (mu.size, mu.size).
MultivariateGaussian_check_input(mu, cov) ==
    IF Ndim(mu.value) # 1 \/ Ndim(cov.value) # 2 THEN "ValueError"
    ELSE IF cov.value.shape # <<Size(mu.value.shape), Size(mu.value.shape)>> THEN "ValueError"
    ELSE "none"

\* The mu setter: the tensor is stored as given.
MultivariateGaussian_set_mu(self, mu) == [self EXCEPT !.mu = mu]

\* The cov setter: self.L = cholesky(cov.value), the array and not the tensor;
\* LinAlgError becomes ValueError and nothing is stored.
MultivariateGaussian_set_cov(self, cov) ==
    LET l == cholesky(Constant(cov.value))
    IN IF l = None THEN [err |-> "ValueError", self |-> self]
       ELSE [err |-> "none", self |-> [self EXCEPT !.L = l, !.cov = cov]]

\* MultivariateGaussian.__init__: _check_input, then the two setters.
MultivariateGaussian_init(mu, cov) ==
    LET new == [mu |-> None, cov |-> None, L |-> None, eps |-> None]
        r == MultivariateGaussian_set_cov(MultivariateGaussian_set_mu(new, mu), cov)
    IN IF MultivariateGaussian_check_input(mu, cov) # "none"
       THEN [err |-> MultivariateGaussian_check_input(mu, cov), self |-> None]
       ELSE IF r.err # "none" THEN [err |-> r.err, self |-> None]
       ELSE r

\* MultivariateGaussian._forward: eps is stored, output = mu + L @ eps; a
\* Constant when mu and cov both are, else a tensor produced by self.
MultivariateGaussian_forward(self, eps) ==
    LET le == Matmul(self.L.value, eps)
        stored == [self EXCEPT !.eps = eps]
    IN IF le = None \/ ~BroadcastOK(self.mu.value.shape, IF le = None THEN <<>> ELSE le.shape)
       THEN [err |-> "ValueError", self |-> stored, out |-> None]
       ELSE [err |-> "none", self |-> stored,
             out |-> [kind |-> IF self.mu.kind = "Constant" /\ self.cov.kind = "Constant"
                               THEN "Constant" ELSE "Tensor",
                      value |-> Arr(le.shape, [k \in 1..Len(le.data) |->
                                    BroadcastTo_forward(self.mu.value, le.shape).data[k] + le.data[k]])]]

\* MultivariateGaussian._backward: dmu = delta, dL = delta @ eps[:, None];
\* self.mu.backward(dmu), then self.L.backward(dL).
MultivariateGaussian_backward(self, delta) ==
    [dmu |-> delta, dL |-> Matmul(delta, ColumnOf(self.eps))]

MvgInit ==
    /\ MvgIdle
    /\ GraphIdle
    /\ AddIdle
    /\ OptIdle
    /\ LdIdle
    /\ GmIdle

MvgTensors(values) == {[kind |-> k, value |-> v] : k \in Kinds, v \in values}

\* MultivariateGaussian(mu, cov)
MvgConstruct(mu, cov) ==
    /\ mvg = None
    /\ LET r == MultivariateGaussian_init(mu, cov)
       IN mvg' = r.self /\ mErr' = r.err
    /\ mGrad' = [mu |-> None, cov |-> None]
    /\ mLast' = None
    /\ UNCHANGED <<mSample, mSteps>>
    /\ MvgFrame

\* rv.mu = mu, a new leaf
MvgSetMu(mu) ==
    /\ mvg # None /\ mSteps < MaxMvgSteps
    /\ mvg' = MultivariateGaussian_set_mu(mvg, mu)
    /\ mGrad' = [mGrad EXCEPT !.mu = None]
    /\ mErr' = "none"
    /\ mSteps' = mSteps + 1
    /\ mLast' = None
    /\ UNCHANGED mSample
    /\ MvgFrame

\* rv.cov = cov, a new leaf; a failed assignment keeps the old one
MvgSetCov(cov) ==
    /\ mvg # None /\ mSteps < MaxMvgSteps
    /\ LET r == MultivariateGaussian_set_cov(mvg, cov)
       IN /\ mvg' = r.self
          /\ mErr' = r.err
          /\ mGrad' = IF r.err = "none" THEN [mGrad EXCEPT !.cov = None] ELSE mGrad
    /\ mSteps' = mSteps + 1
    /\ mLast' = None
    /\ UNCHANGED mSample
    /\ MvgFrame

\* An optimizer step on the cov leaf: cov.value changes in place, to another
\* positive-definite matrix of the same shape.
MvgUpdate(v) ==
    /\ mvg # None /\ mSteps < MaxMvgSteps
    /\ mvg.cov.kind = "Parameter"
    /\ v.shape = mvg.cov.value.shape
    /\ v # mvg.cov.value
    /\ PositiveDefinite(v)
    /\ mvg' = [mvg EXCEPT !.cov.value = v]
    /\ mErr' = "none"
    /\ mSteps' = mSteps + 1
    /\ mLast' = None
    /\ UNCHANGED <<mGrad, mSample>>
    /\ MvgFrame

\* rv.forward() with the noise eps drawn
MvgForward(eps) ==
    /\ mvg # None /\ mSteps < MaxMvgSteps
    /\ eps.shape = <<Size(mvg.mu.value.shape)>>
    /\ LET r == MultivariateGaussian_forward(mvg, eps)
       IN /\ mvg' = r.self
          /\ mErr' = r.err
          /\ mSample' = IF r.err = "none" THEN r.out ELSE mSample
    /\ mSteps' = mSteps + 1
    /\ mLast' = None
    /\ UNCHANGED mGrad
    /\ MvgFrame

\* sample.backward(delta) on the last sample, a tensor produced by the instance
MvgBackward(delta) ==
    /\ mvg # None /\ mSteps < MaxMvgSteps /\ mSample # None
    /\ mSample.kind = "Tensor"
    /\ delta.shape = mSample.value.shape
    /\ LET d == MultivariateGaussian_backward(mvg, delta)
       IN /\ mLast' = [delta |-> delta, dL |-> d.dL, before |-> mGrad.mu]
          /\ mErr' = IF d.dL = None THEN "ValueError" ELSE "none"
          /\ mGrad' = [mu |-> IF d.dL # None /\ mvg.mu.kind = "Parameter"
                              THEN Parameter_backward(mGrad.mu, d.dmu) ELSE mGrad.mu,
                       cov |-> IF d.dL # None /\ mvg.L.kind = "Tensor" /\ mvg.L.input.kind = "Parameter"
                               THEN Parameter_backward(mGrad.cov, d.dL) ELSE mGrad.cov]
    /\ mSteps' = mSteps + 1
    /\ UNCHANGED <<mvg, mSample>>
    /\ MvgFrame

MvgNext ==
    \/ \E mu \in MvgTensors(MuDomain), cov \in MvgTensors(CovDomain) : MvgConstruct(mu, cov)
    \/ \E mu \in MvgTensors(MuDomain) : MvgSetMu(mu)
    \/ \E cov \in MvgTensors(CovDomain) : MvgSetCov(cov)
    \/ \E v \in CovDomain : MvgUpdate(v)
    \/ \E eps \in Vectors : MvgForward(eps)
    \/ \E delta \in Vectors : MvgBackward(delta)

SpecMvg == MvgInit /\ [][MvgNext]_vars

\* ---- C5 ------------------------------------------------------------
\* C5: with mu and cov both Parameters, backpropagating delta of shape (d,) into
\* a sample adds delta to mu's grad, forms dL as the (d, d) outer product of
\* delta and eps, and sets cov's grad with shape (d, d).
C5_ReparamBackward ==
    (mLast # None /\ mvg.mu.kind = "Parameter" /\ mvg.cov.kind = "Parameter") =>
        LET d == Size(mLast.delta.shape)
        IN /\ mGrad.mu = Parameter_backward(mLast.before, mLast.delta)
           /\ mLast.dL # None
           /\ mLast.dL.shape = <<d, d>>
           /\ \A i \in 1..d, j \in 1..d :
                mLast.dL.data[(i - 1) * d + j] = mLast.delta.data[i] * mvg.eps.data[j]
           /\ mGrad.cov # None
           /\ mGrad.cov.shape = <<d, d>>

\* ---- C8 ------------------------------------------------------------
\* C8: in every state of an instance, cov is positive-definite of shape
\* (mu.size, mu.size) and L is the lower-triangular Cholesky factor of the
\* current cov.
C8_FactorOfCurrentCov ==
    mvg # None =>
        /\ PositiveDefinite(mvg.cov.value)
        /\ mvg.cov.value.shape = <<Size(mvg.mu.value.shape), Size(mvg.mu.value.shape)>>
        /\ mvg.L.value \in LowerTri(mvg.cov.value.shape[1])
        /\ Matmul(mvg.L.value, Transpose(mvg.L.value)) = mvg.cov.value

\* ------------------------------------------------ GaussianMixture
\* Mixing coefficients are counted in halves: Unit is the 1 that
\* coef.value.sum(axis) is compared with.
Unit == 2

\* Python's index a into a tuple of length n: valid from -n to n - 1.
AxisInRange(a, n) == (0 - n) <= a /\ a < n

\* The position from 1 that index a names.
AxisPos(a, n) == IF a < 0 THEN a + n + 1 ELSE a + 1

\* Function._atleast_ndim
AtLeastNdim(t, n) == Ndim(t.value) >= n

AnyNegative(arr) == \E k \in 1..Len(arr.data) : arr.data[k] < 0

\* np.allclose(arr.sum(axis=a), 1)
SumsToOne(arr, a) ==
    LET sums == SumAxisKeep(arr, AxisPos(a, Ndim(arr)))
    IN \A k \in 1..Len(sums.data) : sums.data[k] = Unit

\* The axis setter: an int is stored, anything else raises TypeError.
GaussianMixture_set_axis(self, axis) ==
    IF ~axis.int THEN [err |-> "TypeError", self |-> self]
    ELSE [err |-> "none", self |-> [self EXCEPT !.axis = axis.v]]

\* The coef setter: at least 1-D, no negative entry, sums of 1 along self.axis.
GaussianMixture_set_coef(self, coef) ==
    IF ~AtLeastNdim(coef, 1) THEN [err |-> "ValueError", self |-> self]
    ELSE IF AnyNegative(coef.value) THEN [err |-> "ValueError", self |-> self]
    ELSE IF ~AxisInRange(self.axis, Ndim(coef.value)) THEN [err |-> "AxisError", self |-> self]
    ELSE IF ~SumsToOne(coef.value, self.axis) THEN [err |-> "ValueError", self |-> self]
    ELSE [err |-> "none", self |-> [self EXCEPT !.coef = coef]]

\* The mu setter: the tensor is stored as given.
GaussianMixture_set_mu(self, mu) == [err |-> "none", self |-> [self EXCEPT !.mu = mu]]

\* The std setter: at least 1-D and no entry below zero.
GaussianMixture_set_std(self, std) ==
    IF ~AtLeastNdim(std, 1) THEN [err |-> "ValueError", self |-> self]
    ELSE IF AnyNegative(std.value) THEN [err |-> "ValueError", self |-> self]
    ELSE [err |-> "none", self |-> [self EXCEPT !.std = std]]

\* GaussianMixture._check_input: the three shapes are equal, and n_component
\* is coef.shape[self.axis].
GaussianMixture_check_input(self, coef, mu, std) ==
    IF ~(coef.value.shape = mu.value.shape /\ mu.value.shape = std.value.shape)
    THEN [err |-> "ValueError", self |-> self]
    ELSE IF ~AxisInRange(self.axis, Ndim(coef.value))
    THEN [err |-> "IndexError", self |-> self]
    ELSE [err |-> "none",
          self |-> [self EXCEPT !.n_component =
                        coef.value.shape[AxisPos(self.axis, Ndim(coef.value))]]]

\* GaussianMixture.__init__: the axis setter, _check_input, then the coef, mu
\* and std setters; the first error ends the construction.
GaussianMixture_init(coef, mu, std, axis) ==
    LET new == [axis |-> None, coef |-> None, mu |-> None, std |-> None, n_component |-> None]
        r1 == GaussianMixture_set_axis(new, axis)
        r2 == GaussianMixture_check_input(r1.self, coef, mu, std)
        r3 == GaussianMixture_set_coef(r2.self, coef)
        r4 == GaussianMixture_set_mu(r3.self, mu)
        r5 == GaussianMixture_set_std(r4.self, std)
    IN IF r1.err # "none" THEN [err |-> r1.err, self |-> None]
       ELSE IF r2.err # "none" THEN [err |-> r2.err, self |-> None]
       ELSE IF r3.err # "none" THEN [err |-> r3.err, self |-> None]
       ELSE IF r5.err # "none" THEN [err |-> r5.err, self |-> None]
       ELSE r5

\* The rows of a 2-D array.
Row(arr, i) == SubSeq(arr.data, (i - 1) * arr.shape[2] + 1, i * arr.shape[2])

\* np.random.choice(self.n_component, p=c) for c in self.coef.value: what it
\* raises before drawing.  A 1-D coef hands it scalars; p must have
\* n_component entries that sum to 1.
GaussianMixture_choice_error(self) ==
    IF Ndim(self.coef.value) # 2 THEN "ValueError"
    ELSE IF self.coef.value.shape[2] # self.n_component THEN "ValueError"
    ELSE IF \E i \in 1..self.coef.value.shape[1] : SumSeq(Row(self.coef.value, i)) # Unit
    THEN "ValueError"
    ELSE "none"

\* The index tuples the draws can give: component j (from 0) of row i has
\* positive probability.
GaussianMixture_indices(self) ==
    {ix \in [1..self.coef.value.shape[1] -> 0..(self.n_component - 1)] :
        \A i \in 1..self.coef.value.shape[1] : Row(self.coef.value, i)[ix[i] + 1] > 0}

\* arr[indices]: the entries of arr along its first axis at the indices.
Take(arr, indices) ==
    LET inner == Size(Tail(arr.shape))
    IN Arr(<<Len(indices)>> \o Tail(arr.shape),
           [k \in 1..(Len(indices) * inner) |->
               arr.data[indices[((k - 1) \div inner) + 1] * inner + ((k - 1) % inner) + 1]])

\* GaussianMixture.forward: a component index per row of coef, then
\* np.random.normal(loc=mu[indices], scale=std[indices]); a Constant when coef,
\* mu and std all are, else a tensor whose producer is self.
GaussianMixture_forward(self, indices, noise) ==
    IF \E i \in 1..Len(indices) :
          indices[i] >= self.mu.value.shape[1] \/ indices[i] >= self.std.value.shape[1]
    THEN [err |-> "IndexError", out |-> None]
    ELSE LET loc == Take(self.mu.value, indices)
             scale == Take(self.std.value, indices)
             shape == BroadcastShape(loc.shape, scale.shape)
         IN IF ~BroadcastOK(loc.shape, scale.shape) THEN [err |-> "ValueError", out |-> None]
            ELSE [err |-> "none",
                  out |-> [kind |-> IF self.coef.kind = "Constant" /\ self.mu.kind = "Constant"
                                       /\ self.std.kind = "Constant"
                                    THEN "Constant" ELSE "Tensor",
                           value |-> Arr(shape, [k \in 1..Size(shape) |->
                                        BroadcastTo_forward(loc, shape).data[k]
                                        + noise * BroadcastTo_forward(scale, shape).data[k]])]]

\* GaussianMixture.backward(self): it takes no gradient argument, so a call that
\* passes one raises TypeError before the body runs; the body raises
\* NotImplementedError.
GaussianMixture_backward(args) ==
    IF Len(args) # 0 THEN "TypeError" ELSE "NotImplementedError"

\* Tensor.backward(delta) on a tensor with a producer: function.backward(delta).
Tensor_backward_args(delta) == <<delta>>

GmShapes == {<<2>>, <<1, 2>>, <<2, 2>>}

\* Coefficient values: sums of 1 along every axis, along one axis only, a sum
\* that is not 1, and a negative entry.
GmCoefs ==
    {Arr(sh, d) : sh \in {<<2>>, <<1, 2>>}, d \in {<<1, 1>>, <<2, 0>>, <<1, 0>>, <<3, 0 - 1>>}}
    \cup {Arr(<<2, 2>>, d) : d \in {<<1, 1, 1, 1>>, <<2, 0, 2, 0>>, <<2, 2, 0, 0>>}}

\* Standard deviations: all 1, or with a first entry of 0 or -1.
GmStds == {Arr(sh, [k \in 1..Size(sh) |-> IF k = 1 THEN z ELSE 1]) : sh \in GmShapes, z \in {1, 0, 0 - 1}}

GmMus == {Fill(sh, 0) : sh \in GmShapes}

GmAxes == {[int |-> TRUE, v |-> a] : a \in {0 - 1, 0, 1}} \cup {[int |-> FALSE, v |-> 0]}

GmInit ==
    /\ GmIdle
    /\ GraphIdle
    /\ AddIdle
    /\ OptIdle
    /\ LdIdle
    /\ MvgIdle

\* GaussianMixture(coef, mu, std, axis), the three parameters of one kind
GmConstruct(kind, coef, mu, std, axis) ==
    /\ gm = None
    /\ LET r == GaussianMixture_init([kind |-> kind, value |-> coef], [kind |-> kind, value |-> mu],
                                     [kind |-> kind, value |-> std], axis)
       IN gm' = r.self /\ gmErr' = r.err
    /\ gmGrad' = [coef |-> None, mu |-> None, std |-> None]
    /\ gmCall' = "construct"
    /\ UNCHANGED <<gmSample, gmSteps>>
    /\ GmFrame

\* An assignment to a property of the instance; r is the setter's result.
GmAssign(r, name) ==
    /\ gm # None /\ gmSteps < MaxGmSteps
    /\ gm' = r.self
    /\ gmErr' = r.err
    /\ gmCall' = name
    /\ gmSteps' = gmSteps + 1
    /\ UNCHANGED <<gmGrad, gmSample>>
    /\ GmFrame

GmSetAxis(axis) == gm # None /\ GmAssign(GaussianMixture_set_axis(gm, axis), "axis")

GmSetCoef(coef) ==
    gm # None /\ GmAssign(GaussianMixture_set_coef(gm, [kind |-> "Parameter", value |-> coef]), "coef")

GmSetMu(mu) ==
    gm # None /\ GmAssign(GaussianMixture_set_mu(gm, [kind |-> "Parameter", value |-> mu]), "mu")

GmSetStd(std) ==
    gm # None /\ GmAssign(GaussianMixture_set_std(gm, [kind |-> "Parameter", value |-> std]), "std")

\* rv.forward() when np.random.choice raises
GmForwardRaises ==
    /\ gm # None /\ gmSteps < MaxGmSteps
    /\ GaussianMixture_choice_error(gm) # "none"
    /\ gmErr' = GaussianMixture_choice_error(gm)
    /\ gmCall' = "forward"
    /\ gmSteps' = gmSteps + 1
    /\ UNCHANGED <<gm, gmGrad, gmSample>>
    /\ GmFrame

\* rv.forward() with the indices and the noise drawn
GmForward(noise) ==
    /\ gm # None /\ gmSteps < MaxGmSteps
    /\ GaussianMixture_choice_error(gm) = "none"
    /\ \E ix \in GaussianMixture_indices(gm) :
         LET r == GaussianMixture_forward(gm, ix, noise)
         IN /\ gmErr' = r.err
            /\ gmSample' = IF r.err = "none" THEN r.out ELSE gmSample
    /\ gmCall' = "forward"
    /\ gmSteps' = gmSteps + 1
    /\ UNCHANGED <<gm, gmGrad>>
    /\ GmFrame

\* rv.backward()
GmBackward ==
    /\ gm # None /\ gmSteps < MaxGmSteps
    /\ gmErr' = GaussianMixture_backward(<<>>)
    /\ gmCall' = "backward"
    /\ gmSteps' = gmSteps + 1
    /\ UNCHANGED <<gm, gmGrad, gmSample>>
    /\ GmFrame

\* sample.backward() on a tensor forward() returned with the mixture as
\* producer; the default delta is an array of ones
GmTensorBackward ==
    /\ gm # None /\ gmSteps < MaxGmSteps
    /\ gmSample # None
    /\ gmSample.kind = "Tensor"
    /\ gmErr' = GaussianMixture_backward(Tensor_backward_args(Ones(gmSample.value.shape)))
    /\ gmCall' = "tensor.backward"
    /\ gmSteps' = gmSteps + 1
    /\ UNCHANGED <<gm, gmGrad, gmSample>>
    /\ GmFrame

GmNext ==
    \/ \E kind \in Kinds, coef \in GmCoefs, mu \in GmMus, std \in GmStds, axis \in GmAxes :
          GmConstruct(kind, coef, mu, std, axis)
    \/ \E axis \in GmAxes : GmSetAxis(axis)
    \/ \E coef \in GmCoefs : GmSetCoef(coef)
    \/ \E mu \in GmMus : GmSetMu(mu)
    \/ \E std \in GmStds : GmSetStd(std)
    \/ GmForwardRaises
    \/ \E noise \in {0, 1} : GmForward(noise)
    \/ GmBackward
    \/ GmTensorBackward

SpecGm == GmInit /\ [][GmNext]_vars

\* ---- C6 ------------------------------------------------------------
\* C6: a backward request on a mixture, direct or through a tensor it produced,
\* ends in NotImplementedError and nothing else, the grads of coef, mu and std
\* stay as they were, and forward never raises that error.
C6_BackwardUnsupported ==
    /\ gmCall \in {"backward", "tensor.backward"} => gmErr = "NotImplementedError"
    /\ gmCall = "forward" => gmErr # "NotImplementedError"
    /\ gm # None => gmGrad = [coef |-> None, mu |-> None, std |-> None]

\* ---- C7 ------------------------------------------------------------
\* C7: in every state of an instance, coef, mu and std have one shape, coef has
\* no negative entry and sums to 1 along the stored axis, every std entry is
\* positive, and n_component is the size of coef along the stored axis.
C7_ParametersValid ==
    gm # None =>
        /\ gm.coef.value.shape = gm.mu.value.shape
        /\ gm.mu.value.shape = gm.std.value.shape
        /\ ~AnyNegative(gm.coef.value)
        /\ AxisInRange(gm.axis, Ndim(gm.coef.value))
        /\ SumsToOne(gm.coef.value, gm.axis)
        /\ \A k \in 1..Len(gm.std.value.data) : gm.std.value.data[k] > 0
        /\ gm.n_component = gm.coef.value.shape[AxisPos(gm.axis, Ndim(gm.coef.value))]

\* ------------------------------------------------------- Optimizer

\* Optimizer.__init__: learning_rate kept, n_iter = 0, no decay attributes.
Optimizer_init(learning_rate) ==
    [learning_rate |-> learning_rate, n_iter |-> 0, decay |-> None]

\* Optimizer.set_decay
Optimizer_set_decay(self, decay_rate, decay_step) ==
    [self EXCEPT !.decay = [decay_rate |-> decay_rate, decay_step |-> decay_step]]

\* A slip: the learning rate decays on every iteration, whatever decay_step is.
Optimizer_increment_everyStep(self) ==
    [self |-> [self EXCEPT !.n_iter = @ + 1,
                           !.learning_rate =
                               IF self.decay = None THEN @ ELSE @ * self.decay.decay_rate],
     err |-> "none"]

\* Optimizer.increment_iteration: n_iter += 1; with decay attributes set,
\* n_iter % decay_step (ZeroDivisionError for a step of 0) decides whether
\* learning_rate *= decay_rate.
Optimizer_increment_iteration(self) ==
    LET n == self.n_iter + 1
    IN IF self.decay = None
       THEN [self |-> [self EXCEPT !.n_iter = n], err |-> "none"]
       ELSE IF self.decay.decay_step = 0
       THEN [self |-> [self EXCEPT !.n_iter = n], err |-> "ZeroDivisionError"]
       ELSE IF n % self.decay.decay_step = 0
       THEN [self |-> [self EXCEPT !.n_iter = n,
                                   !.learning_rate = @ * self.decay.decay_rate],
             err |-> "none"]
       ELSE [self |-> [self EXCEPT !.n_iter = n], err |-> "none"]

\* ------------------------------------------------ the computation graph

\* A slip: add() keeps one Add instance and runs every forward on it.
NewInstance_reuse(ops) == IF ops = <<>> THEN 1 ELSE Len(ops)

\* add(x, y): Add() constructs a new instance for every call.
NewInstance(ops) == Len(ops) + 1

\* Add().forward(x, y) on instance f: self.x, self.y are (over)written, and
\* the new tensor's producer is f.
Function_forward(ops, f, x, y) ==
    IF f > Len(ops)
    THEN Append(ops, [op |-> "Add", x |-> x, y |-> y, nforward |-> 1, nbackward |-> 0])
    ELSE [ops EXCEPT ![f].x = x, ![f].y = y, ![f].nforward = @ + 1]

\* Gradient accumulation: the first gradient is kept, later ones are added.
Accumulate(g, delta) == Parameter_backward(g, delta)

RECURSIVE Deliver(_, _)
Deliver(calls, pending) ==
    IF calls = <<>> THEN pending
    ELSE Deliver(Tail(calls),
                 [pending EXCEPT ![Head(calls).to] = Accumulate(@, Head(calls).delta)])

\* Tensor.backward: the tensors are visited in decreasing creation order from
\* the root; a tensor's gradient is final when it is visited.  A Parameter adds
\* it to its grad, a Constant discards it, a produced tensor runs its
\* producer's backward rule once, whose calls add to the inputs' gradients.
RECURSIVE Propagate(_, _, _)
Propagate(i, nodes, st) ==
    IF i = 0 THEN st
    ELSE IF st.pending[i] = None THEN Propagate(i - 1, nodes, st)
    ELSE LET d == st.pending[i]
             f == nodes[i].function
         IN IF nodes[i].kind = "Parameter"
            THEN Propagate(i - 1, nodes,
                           [st EXCEPT !.grad[i] = Parameter_backward(@, d)])
            ELSE IF nodes[i].kind = "Constant"
            THEN Propagate(i - 1, nodes, st)
            ELSE Propagate(i - 1, nodes,
                           [st EXCEPT !.pending = Deliver(Add_backward(st.ops[f], d), @),
                                      !.ops[f].nbackward = @ + 1,
                                      !.log = Append(@, [node |-> i, delta |-> d])])

Tensor_backward(r, delta, nodes, ops, grad) ==
    Propagate(r, nodes,
              [pending |-> [i \in 1..Len(nodes) |-> IF i = r THEN delta ELSE None],
               ops |-> ops, grad |-> grad, log |-> <<>>])

\* Optimizer.cleargrad: p.cleargrad() for every parameter.
Optimizer_cleargrad_skip(nodes, grad) == grad

Optimizer_cleargrad(nodes, grad) ==
    [i \in DOMAIN grad |-> IF nodes[i].kind = "Parameter" THEN None ELSE grad[i]]

GraphInit ==
    /\ GraphIdle
    /\ AddIdle
    /\ OptIdle
    /\ LdIdle
    /\ MvgIdle
    /\ GmIdle

\* z = add(x, y) for two existing tensors x and y.
Graph_add(x, y) ==
    /\ LET f == NewInstance(gOps)
           ops == Function_forward(gOps, f, x, y)
       IN /\ gOps' = ops
          /\ gNodes' = Append(gNodes,
                 [kind |-> "Tensor",
                  value |-> Add_forward(gNodes[x], gNodes[y]).value,
                  function |-> f])
    /\ gGrad' = Append(gGrad, None)
    /\ UNCHANGED <<gCalls, gCleared, gPass>>

\* r.backward(delta) on any tensor r.
Graph_backward(r, delta) ==
    /\ LET st == Tensor_backward(r, Scalar(delta), gNodes, gOps, gGrad)
       IN /\ gOps' = st.ops
          /\ gGrad' = st.grad
          /\ gPass' = st.log
    /\ gCalls' = Append(gCalls, [root |-> r, delta |-> delta])
    /\ UNCHANGED <<gNodes, gCleared>>

\* optimizer.cleargrad() over the graph's parameters.
Graph_cleargrad ==
    /\ gGrad' = Optimizer_cleargrad(gNodes, gGrad)
    /\ gCleared' = Len(gCalls)
    /\ UNCHANGED <<gNodes, gOps, gCalls, gPass>>

GAdd(x, y) == Len(gOps) < MaxOps /\ Graph_add(x, y) /\ GraphFrame

GBackward(r, delta) == Len(gCalls) < MaxBackward /\ Graph_backward(r, delta) /\ GraphFrame

GCleargrad == Graph_cleargrad /\ GraphFrame

\* The gradients a backward call is given; r.backward() passes 1.
Deltas == {1, 2}

DefaultDelta == {1}

GraphNext ==
    \/ \E x \in 1..Len(gNodes), y \in 1..Len(gNodes) : GAdd(x, y)
    \/ \E r \in 1..Len(gNodes), delta \in DefaultDelta : GBackward(r, delta)
    \/ GCleargrad

\* Graphs built and differentiated in any order, gradients cleared at any time.
SpecGraph == GraphInit /\ [][GraphNext]_vars

\* One backward pass: a graph is built, then backward is called once.
PAdd(x, y) == Len(gOps) < MaxPassOps /\ gCalls = <<>> /\ Graph_add(x, y) /\ GraphFrame

PBackward(r, delta) == gCalls = <<>> /\ Graph_backward(r, delta) /\ GraphFrame

PassNext ==
    \/ \E x \in 1..Len(gNodes), y \in 1..Len(gNodes) : PAdd(x, y)
    \/ \E r \in 1..Len(gNodes), delta \in Deltas : PBackward(r, delta)

SpecPass == GraphInit /\ [][PassNext]_vars

\* The number of paths from tensor r down to tensor n along producer links.
RECURSIVE Paths(_, _)
Paths(r, n) ==
    IF r = n THEN 1
    ELSE IF gNodes[r].function = 0 THEN 0
    ELSE Paths(gOps[gNodes[r].function].x, n) + Paths(gOps[gNodes[r].function].y, n)

Reaches(r, n) == Paths(r, n) > 0

\* ---- C2 ------------------------------------------------------------
\* What the backward calls since the last cleargrad contribute to leaf l, each
\* as a single backward on a fresh graph would: delta times the paths to l.
Contribution(k, l) == gCalls[k].delta * Paths(gCalls[k].root, l)

SinceClear == (gCleared + 1)..Len(gCalls)

ContributionSum(l) ==
    SumSeq([j \in 1..(Len(gCalls) - gCleared) |-> Contribution(gCleared + j, l)])

\* C2: a Parameter's grad is the sum of what every backward call since the last
\* cleargrad contributed (None when none reached it); so after cleargrad and one
\* backward it is that one call's contribution alone.
C2_Accumulate ==
    \A l \in 1..Len(gNodes) :
        gNodes[l].kind = "Parameter" =>
            IF \E k \in SinceClear : Reaches(gCalls[k].root, l)
            THEN gGrad[l] = Scalar(ContributionSum(l))
            ELSE gGrad[l] = None

\* Two backward calls without a cleargrad between them both reached the leaf.
C2_Witness ==
    /\ Len(gCalls) - gCleared = 2
    /\ \A k \in SinceClear : Reaches(gCalls[k].root, 1)
    /\ gGrad[1] # None
    /\ gGrad[1].data[1] > Contribution(Len(gCalls), 1)

\* ---- C3 ------------------------------------------------------------
IsOp(n) == gNodes[n].function # 0

Consumes(c, n) ==
    IsOp(c) /\ (gOps[gNodes[c].function].x = n \/ gOps[gNodes[c].function].y = n)

LogPositions(n) == {i \in 1..Len(gPass) : gPass[i].node = n}

CallsReaching(f) ==
    {k \in 1..Len(gCalls) :
        \E n \in 1..Len(gNodes) : gNodes[n].function = f /\ Reaches(gCalls[k].root, n)}

\* C9 as stated: every Operation instance runs forward exactly once and its
\* backward rule at most once, whatever the user calls.
C9_SingleUse ==
    \A f \in 1..Len(gOps) : gOps[f].nforward = 1 /\ gOps[f].nbackward <= 1

\* C9 amended: forward runs exactly once per instance; the backward rule runs for
\* every backward call on a tensor that depends on the instance's output, and
\* never without one.
C9_ForwardOnceBackwardPerCall ==
    \A f \in 1..Len(gOps) :
        /\ gOps[f].nforward = 1
        /\ gOps[f].nbackward >= Cardinality(CallsReaching(f))
        /\ CallsReaching(f) = {} => gOps[f].nbackward = 0

\* backward was called twice on the same root and its producer ran twice.
C9_Witness ==
    \E f \in 1..Len(gOps) :
        /\ gOps[f].nbackward = 2
        /\ Len(gCalls) = 2 /\ gCalls[1].root = gCalls[2].root

\* ------------------------------------------------ the optimizer's calls
\* Optimizer(parameters, learning_rate) over the graph's parameters.
OptInit ==
    /\ opt \in {Optimizer_init(lr) : lr \in 1..MaxLr}
    /\ oHist = [lr0 |-> opt.learning_rate, increments |-> 0, sets |-> 0, firstSetIter |-> 0]
    /\ oErr = "none"
    /\ GraphIdle
    /\ AddIdle
    /\ LdIdle
    /\ MvgIdle
    /\ GmIdle

\* optimizer.set_decay(decay_rate, decay_step)
OptSetDecay(decay_rate, decay_step) ==
    /\ opt' = Optimizer_set_decay(opt, decay_rate, decay_step)
    /\ oHist' = [oHist EXCEPT !.sets = IF @ < 2 THEN @ + 1 ELSE @,
                              !.firstSetIter = IF oHist.sets = 0 THEN opt.n_iter ELSE @]
    /\ oErr' = "none"
    /\ UNCHANGED graphVars
    /\ OptFrame

\* optimizer.increment_iteration()
OptIncrement ==
    /\ opt.n_iter < MaxIter
    /\ LET r == Optimizer_increment_iteration(opt)
       IN opt' = r.self /\ oErr' = r.err
    /\ oHist' = [oHist EXCEPT !.increments = @ + 1]
    /\ UNCHANGED graphVars
    /\ OptFrame

\* optimizer.cleargrad()
OptCleargrad ==
    /\ Graph_cleargrad
    /\ oErr' = "none"
    /\ UNCHANGED <<opt, oHist>>
    /\ OptFrame

\* p.backward(delta) on a parameter: it has a grad to clear.
OptBackward(r, delta) ==
    /\ Len(gCalls) < MaxBackward
    /\ gNodes[r].kind = "Parameter"
    /\ Graph_backward(r, delta)
    /\ UNCHANGED optVars
    /\ OptFrame

OptNext ==
    \/ \E rate \in 2..MaxRate, step \in 0..MaxStep : OptSetDecay(rate, step)
    \/ OptIncrement
    \/ OptCleargrad
    \/ \E r \in 1..Len(gNodes), delta \in DefaultDelta : OptBackward(r, delta)

SpecOpt == OptInit /\ [][OptNext]_vars

\* ---- C10 -----------------------------------------------------------
\* C10: n_iter counts the increment_iteration calls (cleargrad and set_decay
\* leave it alone); with set_decay called once, before the first increment and
\* with decay_step >= 1, learning_rate is the initial rate times
\* decay_rate^floor(n_iter / decay_step); with set_decay never called it is the
\* initial rate.
C10_DecaySchedule ==
    /\ opt.n_iter = oHist.increments
    /\ oHist.sets = 0 => opt.learning_rate = oHist.lr0
    /\ (oHist.sets = 1 /\ oHist.firstSetIter = 0 /\ opt.decay.decay_step >= 1) =>
           opt.learning_rate =
               oHist.lr0 * Pow(opt.decay.decay_rate, opt.n_iter \div opt.decay.decay_step)

\* Four increments under a decay step of 2: the rate decayed twice, and the
\* gradients were cleared on the way.
C10_Witness ==
    /\ oHist.sets = 1 /\ oHist.firstSetIter = 0
    /\ opt.decay # None /\ opt.decay.decay_step = 2
    /\ opt.n_iter = 4
    /\ opt.learning_rate = oHist.lr0 * opt.decay.decay_rate * opt.decay.decay_rate
    /\ gCleared > 0

\* ------------------------------------------------------- the add call

AddInit ==
    /\ aX \in {Leaf(k, "x", Fill(s, seed)) : k \in Kinds, s \in Shapes, seed \in 0..MaxSeed}
    /\ aY \in {Leaf(k, "y", Fill(s, seed)) : k \in Kinds, s \in Shapes, seed \in 0..MaxSeed}
    /\ aZ = None
    /\ aGrad = [i \in {"x", "y"} |-> None]
    /\ aErr = "none"
    /\ aPc = "init"
    /\ GraphIdle
    /\ OptIdle
    /\ LdIdle
    /\ MvgIdle
    /\ GmIdle

\* add(x, y) on broadcast-compatible operands.
AddCall ==
    /\ aPc = "init"
    /\ BroadcastOK(aX.value.shape, aY.value.shape)
    /\ aZ' = Add_forward(aX, aY)
    /\ aPc' = "built"
    /\ UNCHANGED <<aX, aY, aGrad, aErr>>
    /\ AddFrame

\* add(x, y) on incompatible shapes: np.broadcast raises ValueError, no node.
AddCallRaises ==
    /\ aPc = "init"
    /\ ~BroadcastOK(aX.value.shape, aY.value.shape)
    /\ aErr' = "ValueError"
    /\ aPc' = "raised"
    /\ UNCHANGED <<aX, aY, aZ, aGrad>>
    /\ AddFrame

\* z.backward(np.ones(z.shape))
AddBackward ==
    /\ aPc = "built"
    /\ aGrad' = AddNode_backward(aZ, Ones(aZ.value.shape), aGrad)
    /\ aPc' = "done"
    /\ UNCHANGED <<aX, aY, aZ, aErr>>
    /\ AddFrame

AddNext == AddCall \/ AddCallRaises \/ AddBackward

SpecAdd == AddInit /\ [][AddNext]_vars

\* ---- C1 ------------------------------------------------------------
\* The row-major position in an operand of shape xs of the entry that lands
\* at position k0 (from 0) of the broadcast shape os.
RECURSIVE Unravel(_, _)
Unravel(k0, shape) ==
    IF shape = <<>> THEN <<>>
    ELSE LET inner == Size(Tail(shape))
         IN <<k0 \div inner>> \o Unravel(k0 % inner, Tail(shape))

RECURSIVE Ravel(_, _)
Ravel(idx, shape) ==
    IF shape = <<>> THEN 0
    ELSE Head(idx) * Size(Tail(shape)) + Ravel(Tail(idx), Tail(shape))

SourceIndex(xs, os, k0) ==
    LET full == Unravel(k0, os)
        off == Len(os) - Len(xs)
        idx == [i \in 1..Len(xs) |-> IF xs[i] = 1 THEN 0 ELSE full[off + i]]
    IN Ravel(idx, xs) + 1

\* C1: for broadcast-compatible operand shapes, add(a, b) is the element-wise
\* sum over the numpy broadcast shape, and backward with an all-ones gradient
\* leaves each Parameter operand a grad of its own shape whose every entry is
\* the number of broadcast positions it was expanded to.
C1_AddBroadcast ==
    LET os == BroadcastShape(aX.value.shape, aY.value.shape)
    IN /\ aPc \in {"built", "done"} =>
            /\ aZ.value.shape = os
            /\ Len(aZ.value.data) = Size(os)
            /\ \A k \in 1..Size(os) :
                 aZ.value.data[k] =
                     aX.value.data[SourceIndex(aX.value.shape, os, k - 1)]
                     + aY.value.data[SourceIndex(aY.value.shape, os, k - 1)]
       /\ aPc = "done" =>
            \A t \in {aX, aY} :
               IF t.kind = "Parameter"
               THEN /\ aGrad[t.id] # None
                    /\ aGrad[t.id].shape = t.value.shape
                    /\ Len(aGrad[t.id].data) = Size(t.value.shape)
                    /\ \A k \in 1..Size(t.value.shape) :
                         aGrad[t.id].data[k] * Size(t.value.shape) = Size(os)
               ELSE aGrad[t.id] = None

\* A (1, 1) Parameter added to a (5, 2, 3) array has grad 30.
C1_Witness ==
    /\ aPc = "done"
    /\ aX.kind = "Parameter" /\ aX.value.shape = <<1, 1>>
    /\ aY.value.shape = <<5, 2, 3>>
    /\ aGrad["x"] = Arr(<<1, 1>>, <<30>>)

====
